---- MODULE Spec2Model ----
(***************************************************************************)
(* gofigure: a command-line HTTP load tester.  The model follows the      *)
(* latest version in src/gofigure.go (main, start, printStats, getURL,    *)
(* sender, send).  Durations are counted in ticks.  How long a dial takes *)
(* and how long the whole run takes are decided by the environment, at    *)
(* the step where the activity ends; a timer that fires adds its length   *)
(* to the stopwatch of the send that armed it.                            *)
(***************************************************************************)
EXTENDS Integers, Sequences, FiniteSets, TLC

(* ------------------------------ bounds -------------------------------- *)
MaxRequests == 2        \* largest -n value explored
MaxConc     == 2        \* largest -c value explored (size of the worker pool)
MaxWall     == 2        \* longest time a whole run takes
StatsLen    == 4        \* longest result set handed to printStats on its own
MaxLat      == 3        \* longest latency of a success in such a result set

\* Time is counted in ticks of one second: every latency and every wall time
\* the environment produces is a whole number of seconds.
timeout == 1            \* *timeout at its default, 1000 ms: one tick

ProgressEvery == 100    \* i%100 in start

MaxDial == timeout      \* a dial takes at most as long as one timeout

Workers == 1..MaxConc
Tickets == 0..(MaxRequests - 1)
ReqsValues == (-1)..MaxRequests
SmallReqsValues == (-1)..1     \* every URL is tried with these; larger runs use PlainUrl
ConcValues == (-1)..MaxConc

(* ------------------------- target resolution -------------------------- *)
\* A raw URL is a sequence of lexical tokens; <<>> stands for "no argument".
RawUrls ==
    { <<"http", "://", "h">>,
      <<"https", "://", "h">>,
      <<"http", "://", "h", ":", "8080">>,
      <<"ftp", "://", "h">>,
      <<"h">>,
      <<"http", "://", "nx">>,
      <<"http", "://", "%zz">> }

NoArgs == <<>>
PlainUrl == << "http", "://", "h" >>

SchemeTokens == {"http", "https", "ftp"}

\* url.Parse: error on an invalid escape; scheme and host only when the text
\* has the form scheme://authority; otherwise everything is path.
UrlParse(raw) ==
    IF \E k \in 1..Len(raw) : raw[k] = "%zz"
    THEN [err |-> "parse", Scheme |-> "", Host |-> <<>>]
    ELSE IF Len(raw) >= 2 /\ raw[1] \in SchemeTokens /\ raw[2] = "://"
    THEN [err |-> "nil", Scheme |-> raw[1], Host |-> SubSeq(raw, 3, Len(raw))]
    ELSE [err |-> "nil", Scheme |-> "", Host |-> <<>>]

\* strings.Split(s, ":"): the pieces of s between the ":" tokens.
RECURSIVE SplitColon(_)
SplitColon(s) ==
    IF \A k \in 1..Len(s) : s[k] # ":"
    THEN << s >>
    ELSE LET k == CHOOSE j \in 1..Len(s) :
                      s[j] = ":" /\ \A m \in 1..(j - 1) : s[m] # ":"
         IN << SubSeq(s, 1, k - 1) >> \o SplitColon(SubSeq(s, k + 1, Len(s)))

\* net.ResolveIPAddr("ip", host): the names the resolver knows.
ResolveIPAddr(host) ==
    IF host = <<"h">> THEN [err |-> "nil", ip |-> "10.0.0.1"]
    ELSE [err |-> "dns", ip |-> ""]

NoTarget == [err |-> "none", scheme |-> "", ip |-> "", port |-> <<>>, lookups |-> 0]

\* the port getURL uses when the host has none
DefaultPort(scheme) == <<"80">>

SchemeAcceptedMutant(scheme) == TRUE
\* getURL's scheme test
SchemeAccepted(scheme) == scheme = "http" \/ scheme = "https"

\* getURL: the error, the address ip:port, and the number of DNS lookups made.
getURL(rawurl) ==
    LET URL == UrlParse(rawurl) IN
    IF URL.err # "nil"
    THEN [err |-> "parse", scheme |-> "", ip |-> "", port |-> <<>>, lookups |-> 0]
    ELSE IF ~SchemeAccepted(URL.Scheme)
    THEN [err |-> "scheme", scheme |-> URL.Scheme, ip |-> "", port |-> <<>>, lookups |-> 0]
    ELSE LET bits == SplitColon(URL.Host)
             host == bits[1]
             port == IF Len(bits) > 1 THEN bits[2] ELSE DefaultPort(URL.Scheme)
             r    == ResolveIPAddr(host)
         IN IF r.err # "nil"
            THEN [err |-> "dns", scheme |-> URL.Scheme, ip |-> "", port |-> <<>>, lookups |-> 1]
            ELSE [err |-> "nil", scheme |-> URL.Scheme, ip |-> r.ip, port |-> port, lookups |-> 1]

(* ------------------------------ results ------------------------------- *)
\* result{time, err}; ticket is a history field (the ticket whose send
\* produced the value), not part of the Go struct.
Result(t, e, k) == [time |-> t, err |-> e, ticket |-> k]
ZeroResult == Result(0, "nil", 0 - 1)

ErrKinds == {"connect", "write", "read", "timeout"}

(* -------------------------- statistics (pure) ------------------------- *)
RECURSIVE Insert(_, _)
Insert(x, s) ==
    IF s = <<>> THEN << x >>
    ELSE IF x <= Head(s) THEN << x >> \o s
    ELSE << Head(s) >> \o Insert(x, Tail(s))

SortAscMutant(s) == s
\* sort.Sort(times): ascending
RECURSIVE SortAsc(_)
SortAsc(s) == IF s = <<>> THEN <<>> ELSE Insert(Head(s), SortAsc(Tail(s)))

RECURSIVE SumSeq(_)
SumSeq(s) == IF s = <<>> THEN 0 ELSE Head(s) + SumSeq(Tail(s))

SuccessTimesMutant(rs) ==
    LET f == SelectSeq(rs, LAMBDA r : r.err \in {"nil", "timeout"})
    IN [k \in 1..Len(f) |-> f[k].time]
\* the loop of printStats: the times of the results whose err is nil
RECURSIVE SuccessTimes(_)
SuccessTimes(rs) ==
    IF rs = <<>> THEN <<>>
    ELSE IF Head(rs).err = "nil"
         THEN << Head(rs).time >> \o SuccessTimes(Tail(rs))
         ELSE SuccessTimes(Tail(rs))

\* a time.Duration of s whole seconds and ns further nanoseconds
Duration(s, ns) == [sec |-> s, nsec |-> ns]
\* the time.Duration of t ticks
WholeSeconds(t) == Duration(t, 0)

\* the nanoseconds in r/k of a second, 0 <= r < k, cut to a whole number:
\* r * 10^9 / k in int64, done three decimal places at a time
NanosOf(r, k) ==
    LET q1 == (r * 1000) \div k
        r1 == (r * 1000) % k
        q2 == (r1 * 1000) \div k
        r2 == (r1 * 1000) % k
        q3 == (r2 * 1000) \div k
    IN q1 * 1000000 + q2 * 1000 + q3

\* time.Duration(d.Nanoseconds() / int64(k)) for a d of t ticks, k > 0
DurationDiv(t, k) == Duration(t \div k, NanosOf(t % k, k))

RECURSIVE GCD(_, _)
GCD(a, b) == IF b = 0 THEN a ELSE GCD(b, a % b)

RECURSIVE IsPow2(_)
IsPow2(q) == q = 1 \/ (q % 2 = 0 /\ IsPow2(q \div 2))

\* how often p has to be doubled to reach q, and q to get above p/2
RECURSIVE ShiftUp(_, _)
ShiftUp(p, q) == IF p >= q THEN 0 ELSE 1 + ShiftUp(2 * p, q)
RECURSIVE ShiftDown(_, _)
ShiftDown(p, q) == IF p < 2 * q THEN 0 ELSE 1 + ShiftDown(p, 2 * q)

\* x * 2^e modulo q
RECURSIVE DoubleMod(_, _, _)
DoubleMod(x, e, q) == IF e = 0 THEN x % q ELSE DoubleMod((2 * x) % q, e - 1, q)

\* the float64 quotient float64(p) / float64(q) lies above p/q (p/q in
\* lowest terms, q not a power of two): the quotient is p/q rounded to 53
\* significant bits, upwards when the part cut off is more than half a unit
FloatAbove(p, q) ==
    LET e == 52 + ShiftUp(p, q) - ShiftDown(p, q)
    IN 2 * DoubleMod(p, e, q) > q

\* float64(n) / workTime.Seconds() for a workTime of w ticks, in thousandths
\* as %.3f prints it: the decimal nearest to the float64 quotient, the even
\* one when the quotient lies exactly halfway
Throughput(n, w) ==
    IF w = 0 THEN (IF n = 0 THEN "NaN" ELSE "+Inf")
    ELSE LET t  == (1000 * n) \div w
             r  == (1000 * n) % w
             g  == GCD(n, w)
             up == IF 2 * r # w THEN 2 * r > w
                   ELSE IF IsPow2(w \div g) THEN t % 2 = 1
                   ELSE FloatAbove(n \div g, w \div g)
         IN IF up THEN t + 1 ELSE t

NoStats == [requests |-> -1, failures |-> -1, taken |-> -1, average |-> -1,
            median |-> -1, interval |-> -1, persec |-> "none"]

\* printStats: the figures of the report (requires n # 0)
Stats(rs, workTime, n) ==
    LET times == SortAsc(SuccessTimes(rs))
        total == SumSeq(times)
        k     == Len(times)
    IN [requests |-> n,
        failures |-> n - k,
        taken    |-> WholeSeconds(workTime),
        average  |-> IF k > 0 THEN DurationDiv(total, k) ELSE WholeSeconds(0),
        median   |-> IF k > 0 THEN WholeSeconds(times[(k \div 2) + 1]) ELSE WholeSeconds(0),
        interval |-> DurationDiv(workTime, n),
        persec   |-> Throughput(n, workTime)]

(* ------------------------------- state -------------------------------- *)
VARIABLES
    args,         \* goopt.Args[0] as a raw URL, or NoArgs
    reqs,         \* *reqs
    concurrency,  \* *concurrency
    mainPc,       \* where main is: "main", "start", "loop", "stats", "exit", "crashed"
    output,       \* what has been printed, in order
    target,       \* what getURL returned
    lookups,      \* DNS resolutions performed
    queue,        \* chan int, capacity requests
    out,          \* chan result, capacity concurrency
    results,      \* the slice filled by start
    writes,       \* writes[k]: how many times slot k was assigned
    i,            \* loop variable of the collecting loop
    spawned,      \* senders started so far
    progress,     \* the i values at which "Completed ..." was printed
    pc,           \* pc[w]: where sender w is
    cur,          \* cur[w]: the ticket sender w is serving
    elapsed,      \* elapsed[w]: ticks since now := time.Now() of the send sender w is in
    res,          \* res[w]: the value send returned, not yet put on out
    rd,           \* rd[t]: the read goroutine of ticket t and its channel ch
    conn,         \* conn[t]: the connection of ticket t
    body,         \* body[t]: the response body of ticket t
    outcome,      \* outcome[t]: how the request of ticket t ended, "none" before
    pulls,        \* pulls[t]: times ticket t was received from queue
    sends,        \* sends[t]: calls of send made for ticket t
    returned,     \* returned[t]: the results send returned for ticket t, in order
    arrived,      \* the results received from out, in order
    fault,        \* the runtime panic that ended the process, or "none"
    workTime,     \* the duration start returned
    stats         \* the figures printStats printed

mainVars   == << args, reqs, concurrency, mainPc, output, target, lookups, fault >>
startVars  == << queue, out, results, writes, i, spawned, progress, workTime, stats >>
workerVars == << pc, cur, elapsed, res >>
reqVars    == << rd, conn, body, outcome, pulls, sends, returned, arrived >>
vars == << mainVars, startVars, workerVars, reqVars >>

NoTicket == 0 - 1      \* cur[w] of a sender that holds no ticket

Init ==
    /\ concurrency \in ConcValues
    /\ \/ args \in RawUrls \cup {NoArgs} /\ reqs \in SmallReqsValues
       \/ args = PlainUrl /\ reqs \in ReqsValues \ SmallReqsValues
    /\ mainPc = "main"
    /\ output = <<>>
    /\ target = NoTarget
    /\ lookups = 0
    /\ fault = "none"
    /\ queue = <<>>
    /\ out = <<>>
    /\ results = <<>>
    /\ writes = <<>>
    /\ i = 0
    /\ spawned = 0
    /\ progress = <<>>
    /\ workTime = 0
    /\ stats = NoStats
    /\ pc = [w \in Workers |-> "unborn"]
    /\ cur = [w \in Workers |-> NoTicket]
    /\ elapsed = [w \in Workers |-> 0]
    /\ res = [w \in Workers |-> ZeroResult]
    /\ rd = [t \in Tickets |-> "none"]
    /\ conn = [t \in Tickets |-> "none"]
    /\ body = [t \in Tickets |-> "none"]
    /\ outcome = [t \in Tickets |-> "none"]
    /\ pulls = [t \in Tickets |-> 0]
    /\ sends = [t \in Tickets |-> 0]
    /\ returned = [t \in Tickets |-> <<>>]
    /\ arrived = <<>>

(* -------------------------------- main -------------------------------- *)
ConfigRejectedMutant(c, n) == n > c
\* main's test *concurrency > *reqs
ConfigRejected(c, n) == c > n

\* len(goopt.Args) == 0: print the usage and return
MainUsage ==
    /\ mainPc = "main"
    /\ args = NoArgs
    /\ output' = Append(output, "usage")
    /\ mainPc' = "exit"
    /\ UNCHANGED << args, reqs, concurrency, target, lookups, fault >>
    /\ UNCHANGED << startVars, workerVars, reqVars >>

\* *concurrency > *reqs: print the message and return
MainReject ==
    /\ mainPc = "main"
    /\ args # NoArgs
    /\ ConfigRejected(concurrency, reqs)
    /\ output' = Append(output, "concurrency_error")
    /\ mainPc' = "exit"
    /\ UNCHANGED << args, reqs, concurrency, target, lookups, fault >>
    /\ UNCHANGED << startVars, workerVars, reqVars >>

\* getURL fails: print "url is invalid" and return
MainBadURL ==
    /\ mainPc = "main"
    /\ args # NoArgs
    /\ ~ConfigRejected(concurrency, reqs)
    /\ getURL(args).err # "nil"
    /\ lookups' = lookups + getURL(args).lookups
    /\ output' = Append(output, "url_invalid")
    /\ mainPc' = "exit"
    /\ UNCHANGED << args, reqs, concurrency, target, fault >>
    /\ UNCHANGED << startVars, workerVars, reqVars >>

\* getURL succeeds: print the heading and call start
MainAccept ==
    /\ mainPc = "main"
    /\ args # NoArgs
    /\ ~ConfigRejected(concurrency, reqs)
    /\ getURL(args).err = "nil"
    /\ lookups' = lookups + getURL(args).lookups
    /\ target' = getURL(args)
    /\ output' = Append(output, "heading")
    /\ mainPc' = "start"
    /\ UNCHANGED << args, reqs, concurrency, fault >>
    /\ UNCHANGED << startVars, workerVars, reqVars >>

(* ------------------------------- start -------------------------------- *)
FillQueueMutant(n) == [k \in 1..n |-> 0]
\* for i := 0; i < requests; i++ { queue <- i }
FillQueue(n) == [k \in 1..n |-> k - 1]

\* the three make calls, the filling of the queue and now := time.Now()
StartAlloc ==
    /\ mainPc = "start"
    /\ IF reqs < 0
       THEN /\ fault' = "makeslice"
            /\ mainPc' = "crashed"
            /\ UNCHANGED << results, writes, queue >>
       ELSE IF concurrency < 0
       THEN /\ fault' = "makechan"
            /\ mainPc' = "crashed"
            /\ UNCHANGED << results, writes, queue >>
       ELSE /\ results' = [k \in 1..reqs |-> ZeroResult]
            /\ writes' = [k \in 1..reqs |-> 0]
            /\ queue' = FillQueue(reqs)
            /\ mainPc' = "loop"
            /\ UNCHANGED fault
    /\ UNCHANGED << args, reqs, concurrency, output, target, lookups >>
    /\ UNCHANGED << out, i, spawned, progress, workTime, stats >>
    /\ UNCHANGED << workerVars, reqVars >>

\* go sender(url, addr, queue, out)
Spawn ==
    /\ mainPc = "loop"
    /\ spawned < concurrency
    /\ spawned' = spawned + 1
    /\ pc' = [pc EXCEPT ![spawned + 1] = "range"]
    /\ UNCHANGED mainVars
    /\ UNCHANGED << queue, out, results, writes, i, progress, workTime, stats >>
    /\ UNCHANGED << cur, elapsed, res >>
    /\ UNCHANGED reqVars

LoopDoneMutant(k, n) == k >= n - 1
\* the collecting loop's condition i < requests has become false
LoopDone(k, n) == k >= n

SlotIndexMutant(k) == 1
\* results[i]: the slot written on the i-th iteration (slots count from 1 here)
SlotIndex(k) == k + 1

\* one iteration of the collecting loop: results[i] = <-out, then the progress line
Collect ==
    /\ mainPc = "loop"
    /\ spawned >= concurrency
    /\ ~LoopDone(i, reqs)
    /\ out # <<>>
    /\ results' = [results EXCEPT ![SlotIndex(i)] = Head(out)]
    /\ writes' = [writes EXCEPT ![SlotIndex(i)] = @ + 1]
    /\ out' = Tail(out)
    /\ progress' = IF i > 0 /\ i % ProgressEvery = 0 THEN Append(progress, i) ELSE progress
    /\ i' = i + 1
    /\ arrived' = Append(arrived, Head(out))
    /\ UNCHANGED mainVars
    /\ UNCHANGED << queue, spawned, workTime, stats >>
    /\ UNCHANGED workerVars
    /\ UNCHANGED << rd, conn, body, outcome, pulls, sends, returned >>

\* the loop is over: erase the progress line and return results and the duration
StartReturn ==
    /\ mainPc = "loop"
    /\ spawned >= concurrency
    /\ LoopDone(i, reqs)
    /\ output' = Append(output, "erase")
    /\ \E d \in 0..MaxWall : workTime' = d
    /\ mainPc' = "stats"
    /\ UNCHANGED << args, reqs, concurrency, target, lookups, fault >>
    /\ UNCHANGED << queue, out, results, writes, i, spawned, progress, stats >>
    /\ UNCHANGED << workerVars, reqVars >>

\* printStats: the division by int64(*reqs) panics when *reqs is 0
PrintStats ==
    /\ mainPc = "stats"
    /\ IF reqs = 0
       THEN /\ fault' = "divzero"
            /\ mainPc' = "crashed"
            /\ UNCHANGED << stats, output >>
       ELSE /\ stats' = Stats(results, workTime, reqs)
            /\ output' = Append(output, "report")
            /\ mainPc' = "exit"
            /\ UNCHANGED fault
    /\ UNCHANGED << args, reqs, concurrency, target, lookups >>
    /\ UNCHANGED << queue, out, results, writes, i, spawned, progress, workTime >>
    /\ UNCHANGED << workerVars, reqVars >>

(* ------------------------------- sender ------------------------------- *)
\* the process is running: no panic so far and main has not returned
Alive == fault = "none" /\ mainPc \in {"loop", "stats"}

\* for _ = range queue: receive a ticket and call send, whose first
\* statement is now := time.Now()
Pull(w) ==
    /\ Alive
    /\ pc[w] = "range"
    /\ queue # <<>>
    /\ LET t == Head(queue) IN
         /\ cur' = [cur EXCEPT ![w] = t]
         /\ pulls' = [pulls EXCEPT ![t] = @ + 1]
         /\ sends' = [sends EXCEPT ![t] = @ + 1]
    /\ queue' = Tail(queue)
    /\ elapsed' = [elapsed EXCEPT ![w] = 0]
    /\ pc' = [pc EXCEPT ![w] = "dial"]
    /\ UNCHANGED mainVars
    /\ UNCHANGED << out, results, writes, i, spawned, progress, workTime, stats >>
    /\ UNCHANGED res
    /\ UNCHANGED << rd, conn, body, outcome, returned, arrived >>

FailResultMutant(e, kind, t) == Result(e, kind, t)
\* return result{0, err}: a failed dial or write reports no elapsed time,
\* whatever the stopwatch e shows
FailResult(e, kind, t) == Result(0, kind, t)

\* net.Dial returns after d ticks: on an error send returns result{0, err}
Dial(w) ==
    /\ Alive
    /\ pc[w] = "dial"
    /\ \E d \in 0..MaxDial : elapsed' = [elapsed EXCEPT ![w] = d]
    /\ \E ok \in BOOLEAN :
         IF ok
         THEN /\ conn' = [conn EXCEPT ![cur[w]] = "open"]
              /\ pc' = [pc EXCEPT ![w] = "write"]
              /\ UNCHANGED << res, returned, outcome >>
         ELSE /\ res' = [res EXCEPT ![w] = FailResult(elapsed'[w], "connect", cur[w])]
              /\ returned' = [returned EXCEPT ![cur[w]] = Append(@, FailResult(elapsed'[w], "connect", cur[w]))]
              /\ outcome' = [outcome EXCEPT ![cur[w]] = "connect"]
              /\ pc' = [pc EXCEPT ![w] = "out"]
              /\ UNCHANGED conn
    /\ UNCHANGED mainVars
    /\ UNCHANGED startVars
    /\ UNCHANGED cur
    /\ UNCHANGED << rd, body, pulls, sends, arrived >>

\* req.Write returns: on an error close the connection and return
\* result{0, err}; otherwise make ch, start the reading goroutine and enter
\* the select, which arms time.After
Write(w) ==
    /\ Alive
    /\ pc[w] = "write"
    /\ \E ok \in BOOLEAN :
         IF ok
         THEN /\ rd' = [rd EXCEPT ![cur[w]] = "reading"]
              /\ pc' = [pc EXCEPT ![w] = "select"]
              /\ UNCHANGED << res, returned, conn, outcome >>
         ELSE /\ conn' = [conn EXCEPT ![cur[w]] = "closed"]
              /\ res' = [res EXCEPT ![w] = FailResult(elapsed[w], "write", cur[w])]
              /\ returned' = [returned EXCEPT ![cur[w]] = Append(@, FailResult(elapsed[w], "write", cur[w]))]
              /\ outcome' = [outcome EXCEPT ![cur[w]] = "write"]
              /\ pc' = [pc EXCEPT ![w] = "out"]
              /\ UNCHANGED rd
    /\ UNCHANGED mainVars
    /\ UNCHANGED startVars
    /\ UNCHANGED << cur, elapsed >>
    /\ UNCHANGED << body, pulls, sends, arrived >>

\* the reading goroutine: http.ReadResponse returns and the pair
\* (response, err) is put on ch, which has room for it
ReadDone(t) ==
    /\ Alive
    /\ rd[t] = "reading"
    /\ \E ok \in BOOLEAN :
         IF ok
         THEN /\ rd' = [rd EXCEPT ![t] = "ch_ok"]
              /\ body' = [body EXCEPT ![t] = "open"]
         ELSE /\ rd' = [rd EXCEPT ![t] = "ch_err"]
              /\ UNCHANGED body
    /\ UNCHANGED mainVars
    /\ UNCHANGED startVars
    /\ UNCHANGED workerVars
    /\ UNCHANGED << conn, outcome, pulls, sends, returned, arrived >>

TimerLeavesMutant(c) == "closed"
\* the timer's case returns at once: nothing is done to the connection
TimerLeaves(c) == c

TimerResultMutant(e, t) == Result(0, "timeout", t)
\* result{time.Now().Sub(now), errors.New("Timeout!")}, taken when the timer
\* has fired: timeout ticks after the select began at stopwatch reading e
TimerResult(e, t) == Result(e + timeout, "timeout", t)

\* select, case <-time.After(...): the timer has fired, timeout ticks after
\* the select began; the result is a timeout and send returns
SelectTimer(w) ==
    /\ Alive
    /\ pc[w] = "select"
    /\ elapsed' = [elapsed EXCEPT ![w] = @ + timeout]
    /\ res' = [res EXCEPT ![w] = TimerResult(elapsed[w], cur[w])]
    /\ outcome' = [outcome EXCEPT ![cur[w]] = "timeout"]
    /\ returned' = [returned EXCEPT ![cur[w]] = Append(@, TimerResult(elapsed[w], cur[w]))]
    /\ conn' = [conn EXCEPT ![cur[w]] = TimerLeaves(@)]
    /\ pc' = [pc EXCEPT ![w] = "out"]
    /\ UNCHANGED mainVars
    /\ UNCHANGED startVars
    /\ UNCHANGED cur
    /\ UNCHANGED << rd, body, pulls, sends, arrived >>

\* select, case rerr := <-ch: res takes the read's error, the connection is
\* closed, then rerr.resp.Body.Close(); ReadResponse returns a nil response
\* with every error, so that call panics when the read failed
SelectRead(w) ==
    /\ Alive
    /\ pc[w] = "select"
    /\ rd[cur[w]] \in {"ch_ok", "ch_err"}
    /\ conn' = [conn EXCEPT ![cur[w]] = "closed"]
    /\ IF rd[cur[w]] = "ch_ok"
       THEN /\ rd' = [rd EXCEPT ![cur[w]] = "got_ok"]
            /\ res' = [res EXCEPT ![w] = Result(elapsed[w], "nil", cur[w])]
            /\ body' = [body EXCEPT ![cur[w]] = "closed"]
            /\ returned' = [returned EXCEPT ![cur[w]] = Append(@, Result(elapsed[w], "nil", cur[w]))]
            /\ outcome' = [outcome EXCEPT ![cur[w]] = "nil"]
            /\ pc' = [pc EXCEPT ![w] = "out"]
            /\ UNCHANGED << fault, mainPc >>
       ELSE /\ rd' = [rd EXCEPT ![cur[w]] = "got_err"]
            /\ res' = [res EXCEPT ![w] = Result(elapsed[w], "read", cur[w])]
            /\ outcome' = [outcome EXCEPT ![cur[w]] = "read"]
            /\ fault' = "nilderef"
            /\ mainPc' = "crashed"
            /\ pc' = [pc EXCEPT ![w] = "panicked"]
            /\ UNCHANGED << body, returned >>
    /\ UNCHANGED << args, reqs, concurrency, output, target, lookups >>
    /\ UNCHANGED startVars
    /\ UNCHANGED << cur, elapsed >>
    /\ UNCHANGED << pulls, sends, arrived >>

OutHasRoomMutant(n, c) == n <= c
\* out = make(chan result, concurrency): a send goes through while fewer
\* than concurrency results are waiting
OutHasRoom(n, c) == n < c

\* out <- send(url, addr): blocks while out is full; the value and the
\* locals of the finished send are gone once it is handed over
Put(w) ==
    /\ Alive
    /\ pc[w] = "out"
    /\ OutHasRoom(Len(out), concurrency)
    /\ out' = Append(out, res[w])
    /\ pc' = [pc EXCEPT ![w] = "range"]
    /\ cur' = [cur EXCEPT ![w] = NoTicket]
    /\ elapsed' = [elapsed EXCEPT ![w] = 0]
    /\ res' = [res EXCEPT ![w] = ZeroResult]
    /\ UNCHANGED mainVars
    /\ UNCHANGED << queue, results, writes, i, spawned, progress, workTime, stats >>
    /\ UNCHANGED reqVars

Next ==
    \/ MainUsage
    \/ MainReject
    \/ MainBadURL
    \/ MainAccept
    \/ StartAlloc
    \/ Spawn
    \/ Collect
    \/ StartReturn
    \/ PrintStats
    \/ \E w \in Workers : Pull(w)
    \/ \E w \in Workers : Dial(w)
    \/ \E w \in Workers : Write(w)
    \/ \E t \in Tickets : ReadDone(t)
    \/ \E w \in Workers : SelectTimer(w)
    \/ \E w \in Workers : SelectRead(w)
    \/ \E w \in Workers : Put(w)

Spec == Init /\ [][Next]_vars

(* ---------------------- printStats on its own ------------------------- *)
\* what a result can look like when start hands the slice to printStats: a
\* success with any latency, a connect or a write failure (time 0), a timeout
\* after a dial of any length
ResultShapes ==
    {[time |-> t, err |-> "nil"] : t \in 0..MaxLat}
    \cup {[time |-> 0, err |-> "connect"]}
    \cup {[time |-> 0, err |-> "write"]}
    \cup {[time |-> d + timeout, err |-> "timeout"] : d \in 0..MaxDial}

\* rd, conn and body of a ticket whose request ended with err
RdAfter(err) == IF err = "nil" THEN "got_ok" ELSE IF err = "timeout" THEN "reading" ELSE "none"
ConnAfter(err) ==
    IF err \in {"nil", "write"} THEN "closed" ELSE IF err = "timeout" THEN "open" ELSE "none"
BodyAfter(err) == IF err = "nil" THEN "closed" ELSE "none"

\* The state in which main calls printStats after a run of one sender over
\* n requests, n <= StatsLen, whose results arrived in ticket order.
InitStats ==
    \E n \in 0..StatsLen : \E sh \in [1..n -> ResultShapes] :
        LET rs == [k \in 1..n |-> Result(sh[k].time, sh[k].err, k - 1)] IN
        /\ args = PlainUrl
        /\ reqs = n
        /\ concurrency = IF n = 0 THEN 0 ELSE 1
        /\ mainPc = "stats"
        /\ output = << "heading", "erase" >>
        /\ target = getURL(PlainUrl)
        /\ lookups = 1
        /\ fault = "none"
        /\ queue = <<>>
        /\ out = <<>>
        /\ results = rs
        /\ arrived = rs
        /\ writes = [k \in 1..n |-> 1]
        /\ i = n
        /\ spawned = IF n = 0 THEN 0 ELSE 1
        /\ progress = <<>>
        /\ workTime \in 0..MaxWall
        /\ stats = NoStats
        /\ pc = [w \in Workers |-> IF w = 1 /\ n > 0 THEN "range" ELSE "unborn"]
        /\ cur = [w \in Workers |-> NoTicket]
        /\ elapsed = [w \in Workers |-> 0]
        /\ res = [w \in Workers |-> ZeroResult]
        /\ rd = [t \in 0..(n - 1) |-> RdAfter(rs[t + 1].err)]
        /\ conn = [t \in 0..(n - 1) |-> ConnAfter(rs[t + 1].err)]
        /\ body = [t \in 0..(n - 1) |-> BodyAfter(rs[t + 1].err)]
        /\ outcome = [t \in 0..(n - 1) |-> rs[t + 1].err]
        /\ pulls = [t \in 0..(n - 1) |-> 1]
        /\ sends = [t \in 0..(n - 1) |-> 1]
        /\ returned = [t \in 0..(n - 1) |-> << rs[t + 1] >>]

NextStats == PrintStats

SpecStats == InitStats /\ [][NextStats]_vars

(* ------------------- long runs against a closed port ------------------ *)
\* The runs long enough for the collector's progress line: ProgressEvery or
\* ProgressEvery + 1 requests, one sender, and a peer that refuses every
\* connection, so that each send returns at once.
LongRuns == {ProgressEvery, ProgressEvery + 1}

InitProgress ==
    /\ args = PlainUrl
    /\ reqs \in LongRuns
    /\ concurrency = 1
    /\ mainPc = "main"
    /\ output = <<>>
    /\ target = NoTarget
    /\ lookups = 0
    /\ fault = "none"
    /\ queue = <<>>
    /\ out = <<>>
    /\ results = <<>>
    /\ writes = <<>>
    /\ i = 0
    /\ spawned = 0
    /\ progress = <<>>
    /\ workTime = 0
    /\ stats = NoStats
    /\ pc = [w \in Workers |-> "unborn"]
    /\ cur = [w \in Workers |-> NoTicket]
    /\ elapsed = [w \in Workers |-> 0]
    /\ res = [w \in Workers |-> ZeroResult]
    /\ rd = [t \in 0..(reqs - 1) |-> "none"]
    /\ conn = [t \in 0..(reqs - 1) |-> "none"]
    /\ body = [t \in 0..(reqs - 1) |-> "none"]
    /\ outcome = [t \in 0..(reqs - 1) |-> "none"]
    /\ pulls = [t \in 0..(reqs - 1) |-> 0]
    /\ sends = [t \in 0..(reqs - 1) |-> 0]
    /\ returned = [t \in 0..(reqs - 1) |-> <<>>]
    /\ arrived = <<>>

\* net.Dial fails: the port is closed
DialRefused(w) == Dial(w) /\ conn' = conn

NextProgress ==
    \/ MainAccept
    \/ StartAlloc
    \/ Spawn
    \/ Collect
    \/ StartReturn
    \/ PrintStats
    \/ \E w \in Workers : Pull(w)
    \/ \E w \in Workers : DialRefused(w)
    \/ \E w \in Workers : Put(w)

SpecProgress == InitProgress /\ [][NextProgress]_vars

(* ============================== properties ============================ *)
\* start was called and got past its make calls
Started == target.err = "nil" /\ mainPc \in {"loop", "stats", "exit", "crashed"} /\ fault \notin {"makeslice", "makechan"}
\* start has returned
StartReturned == Started /\ (mainPc \in {"stats", "exit"} \/ fault = "divzero")

\* how many times ticket t is waiting in the queue
InQueue(t) == Cardinality({k \in 1..Len(queue) : queue[k] = t})

\* C1: with 1 <= C <= N, under every interleaving, every ticket of [0, N) is
\* at any moment either still in the queue once or pulled once, each pull is
\* one call of send, nothing outside [0, N) is ever pulled, and when start
\* returns every ticket has been pulled and sent exactly once.
C1_EachTicketExactlyOnce ==
    (Started /\ 1 <= concurrency /\ concurrency <= reqs) =>
        /\ \A t \in Tickets :
             /\ pulls[t] <= 1
             /\ sends[t] = pulls[t]
             /\ Len(returned[t]) <= sends[t]
             /\ t < reqs => pulls[t] + InQueue(t) = 1
             /\ t >= reqs => pulls[t] = 0 /\ InQueue(t) = 0
        /\ StartReturned =>
             \A t \in 0..(reqs - 1) : pulls[t] = 1 /\ sends[t] = 1 /\ Len(returned[t]) = 1

\* a run of two senders over MaxRequests tickets came to its end with every
\* ticket pulled and sent once, at least one of the requests having failed
C1_Witness ==
    /\ mainPc = "exit"
    /\ stats # NoStats
    /\ reqs = MaxRequests
    /\ concurrency = 2
    /\ \A t \in 0..(reqs - 1) : pulls[t] = 1 /\ sends[t] = 1
    /\ \E t \in 0..(reqs - 1) : outcome[t] \in ErrKinds

\* C2: no slot is ever written twice, slot k is written exactly when k
\* results have been received, and when start returns exactly N results have
\* been received and the slots hold them in order of arrival.
C2_SlotsFilledInArrivalOrder ==
    Started =>
        /\ Len(results) = reqs
        /\ \A k \in 1..Len(results) :
             /\ writes[k] <= 1
             /\ writes[k] = 1 <=> k <= Len(arrived)
             /\ k <= Len(arrived) => results[k] = arrived[k]
        /\ StartReturned => Len(arrived) = reqs /\ results = arrived

\* start returned a full result set whose order is not the ticket order
C2_Witness ==
    /\ StartReturned
    /\ reqs = MaxRequests
    /\ Len(arrived) = reqs
    /\ results[1].ticket = 1
    /\ results[2].ticket = 0
    /\ \A k \in 1..reqs : writes[k] = 1

\* C3: a run that was started with a configuration 1 <= C <= N never aborts:
\* in no reachable state has the process been ended by a panic.
C3_RunNeverAborts ==
    (Started /\ 1 <= concurrency /\ concurrency <= reqs) => fault = "none"

\* C4: a request that met an error of one of the four kinds has that error
\* in the one result send returned for it, the process has not been ended by
\* it, and the report counts it among the failures.
C4_PerRequestErrorsAreLocal ==
    /\ \A t \in Tickets :
         outcome[t] \in ErrKinds =>
             /\ fault = "none"
             /\ Len(returned[t]) = 1
             /\ returned[t][1].err = outcome[t]
    /\ (mainPc = "exit" /\ stats # NoStats) =>
         stats.failures = Cardinality({t \in Tickets : outcome[t] \in ErrKinds})

\* C5: a call of send that is past its dial, or has returned and waits to
\* hand over its result, has not lasted longer than the timeout since it
\* was called.
C5_SendWithinTimeout ==
    \A w \in Workers :
        pc[w] \in {"write", "select", "out"} => elapsed[w] <= timeout

\* C6: once the select of send has taken a case for a ticket, send has
\* returned exactly one result for it: a timeout if the timer's case was
\* taken; if the read's case was taken, the connection (and the body of a
\* response) is closed and the result is a success when the read succeeded
\* and a failure with the read's error when it failed.
C6_RaceDecidesOneResult ==
    \A t \in Tickets :
        /\ Len(returned[t]) <= 1
        /\ outcome[t] = "timeout" =>
             Len(returned[t]) = 1 /\ returned[t][1].err = "timeout"
        /\ rd[t] = "got_ok" =>
             /\ Len(returned[t]) = 1 /\ returned[t][1].err = "nil"
             /\ conn[t] = "closed" /\ body[t] = "closed"
        /\ rd[t] = "got_err" =>
             /\ Len(returned[t]) = 1 /\ returned[t][1].err = "read"
             /\ conn[t] = "closed"

\* nothing of a run exists: no ticket, no slot, no sender, no connection, no
\* DNS lookup, no statistics
NothingDispatched ==
    /\ queue = <<>> /\ results = <<>> /\ out = <<>>
    /\ spawned = 0
    /\ \A w \in Workers : pc[w] = "unborn"
    /\ \A t \in Tickets : pulls[t] = 0 /\ sends[t] = 0 /\ conn[t] = "none" /\ rd[t] = "none"
    /\ stats = NoStats

\* C7: with concurrency > requests main never gets past its test: no DNS
\* lookup is made, no ticket or slot is created, no sender is started, no
\* connection is opened; when a URL was given, all that main prints is the
\* one-line message.
C7_ConfigRejectedBeforeAnything ==
    concurrency > reqs =>
        /\ mainPc \in {"main", "exit"}
        /\ lookups = 0
        /\ target = NoTarget
        /\ NothingDispatched
        /\ (mainPc = "exit" /\ args # NoArgs) => output = << "concurrency_error" >>

\* main has rejected concurrency > requests for a URL whose host does not resolve
C7_Witness ==
    /\ mainPc = "exit"
    /\ concurrency > reqs
    /\ args = << "http", "://", "nx" >>
    /\ output = << "concurrency_error" >>
    /\ lookups = 0

\* the URLs whose resolution fails: malformed, scheme other than http/https,
\* no scheme, host unknown to DNS
MalformedUrls == {r \in RawUrls : \E k \in 1..Len(r) : r[k] = "%zz"}
BadSchemeUrls == {r \in RawUrls \ MalformedUrls :
                     Len(r) < 2 \/ r[2] # "://" \/ r[1] \notin {"http", "https"}}
UnknownHostUrls == {r \in RawUrls \ (MalformedUrls \cup BadSchemeUrls) : r[3] = "nx"}
FailingUrls == MalformedUrls \cup BadSchemeUrls \cup UnknownHostUrls

\* C8: when the URL is one whose resolution fails (and concurrency <=
\* requests), main ends with nothing dispatched, at most one DNS lookup made
\* and exactly one message printed, the error.
C8_ResolutionFailureStopsRun ==
    (args \in FailingUrls /\ concurrency <= reqs) =>
        /\ mainPc \in {"main", "exit"}
        /\ target = NoTarget
        /\ NothingDispatched
        /\ lookups <= 1
        /\ mainPc = "exit" => output = << "url_invalid" >>

\* main has reported an unsupported scheme, a missing scheme, an unknown
\* host or a malformed URL
C8_Witness ==
    /\ mainPc = "exit"
    /\ output = << "url_invalid" >>
    /\ concurrency <= reqs
    /\ args \in FailingUrls
    /\ args \in BadSchemeUrls => lookups = 0
    /\ args \in UnknownHostUrls => lookups = 1

\* C9: an accepted URL without a port gets port 80 when its scheme is http
\* and 443 when it is https; an accepted URL with a port keeps it.
C9_DefaultPortByScheme ==
    target.err = "nil" =>
        target.port =
            IF \E k \in 1..Len(args) : args[k] = ":"
            THEN << args[Len(args)] >>
            ELSE IF args[1] = "http" THEN << "80" >> ELSE << "443" >>

\* C10: when printStats has been called with a result set that holds no
\* success, it has not panicked and its report shows average 0, median 0,
\* failures N, the interval workTime / N and the throughput N per workTime.
C10_NoSuccessReport ==
    (StartReturned /\ mainPc \in {"exit", "crashed"}
     /\ \A k \in 1..Len(results) : results[k].err # "nil") =>
        /\ fault = "none"
        /\ stats.average = WholeSeconds(0)
        /\ stats.median = WholeSeconds(0)
        /\ stats.failures = reqs
        /\ stats.interval = DurationDiv(workTime, reqs)
        /\ stats.persec = Throughput(reqs, workTime)

\* the sum of the latencies of the successes among the first k results
RECURSIVE SuccessSum(_, _)
SuccessSum(rs, k) ==
    IF k = 0 THEN 0
    ELSE (IF rs[k].err = "nil" THEN rs[k].time ELSE 0) + SuccessSum(rs, k - 1)

\* q is the whole part of 1000 * r / n
CutThousand(q, r, n) == q * n <= 1000 * r /\ 1000 * r < (q + 1) * n

\* the duration d is sum/n seconds cut to whole nanoseconds, told by bounds
\* on its seconds and on its milli-, micro- and nanosecond digits in turn
IsQuotient(d, sum, n) ==
    LET ms == d.nsec \div 1000000
        us == (d.nsec \div 1000) % 1000
        ns == d.nsec % 1000
        r0 == sum - d.sec * n
        r1 == 1000 * r0 - ms * n
        r2 == 1000 * r1 - us * n
    IN /\ d.sec >= 0 /\ d.nsec >= 0 /\ ms < 1000
       /\ d.sec * n <= sum /\ sum < (d.sec + 1) * n
       /\ CutThousand(ms, r0, n)
       /\ CutThousand(us, r1, n)
       /\ CutThousand(ns, r2, n)

\* C11: when the report is printed for a result set with k >= 1 successes,
\* the median is the latency of a success with at most floor(k/2) success
\* latencies below it and more than floor(k/2) not above it (the element at
\* index floor(k/2) of the ascending order), and the average is the integer
\* quotient, in nanoseconds, of the sum of the success latencies by k;
\* failures and timeouts
\* enter neither.
C11_MedianAndAverage ==
    (mainPc = "exit" /\ stats # NoStats) =>
        LET succ == {k \in 1..Len(results) : results[k].err = "nil"}
            n    == Cardinality(succ)
            sum  == SuccessSum(results, Len(results))
        IN n >= 1 =>
            /\ \E m \in succ : stats.median = WholeSeconds(results[m].time)
            /\ stats.median.nsec = 0
            /\ Cardinality({j \in succ : results[j].time < stats.median.sec}) <= n \div 2
            /\ Cardinality({j \in succ : results[j].time <= stats.median.sec}) > n \div 2
            /\ IsQuotient(stats.average, sum, n)

\* the report for four successes that arrived with latencies 3, 0, 2, 1:
\* the median is 2 s, the upper of the two middle ones, and the average
\* 6/4 s = 1.5 s
C11_Witness ==
    /\ mainPc = "exit"
    /\ Len(results) = 4
    /\ [k \in 1..4 |-> results[k].time] = << 3, 0, 2, 1 >>
    /\ \A k \in 1..4 : results[k].err = "nil"
    /\ stats.median = WholeSeconds(2)
    /\ stats.average = Duration(1, 500000000)

\* C12: in the report of a completed run the failure count is the number of
\* collected results that are a failure or a timeout, and that count plus
\* the number of collected successes is the requested N.
C12_FailuresCountTimeouts ==
    (mainPc = "exit" /\ stats # NoStats) =>
        LET failed == {k \in 1..Len(arrived) : arrived[k].err \in ErrKinds}
            passed == {k \in 1..Len(arrived) : arrived[k].err = "nil"}
        IN /\ stats.failures = Cardinality(failed)
           /\ stats.requests = reqs
           /\ Cardinality(passed) + stats.failures = reqs

\* the report of a run in which one request timed out and one succeeded
C12_Witness ==
    /\ mainPc = "exit"
    /\ reqs = 2
    /\ \E k \in 1..2 : arrived[k].err = "timeout"
    /\ \E k \in 1..2 : arrived[k].err = "nil"
    /\ stats.failures = 1

\* C13: when a run has come to its end, no sender is still blocked in its
\* receive on the drained queue: every sender has left its loop.
C13_SendersLeaveLoop ==
    (mainPc = "exit" /\ stats # NoStats) =>
        \A w \in Workers : ~(pc[w] = "range" /\ queue = <<>>)

\* the peer has accepted every connection and every request so far and has
\* answered none
PeerSilent ==
    \A t \in DOMAIN rd :
        rd[t] \in {"none", "reading"} /\ outcome[t] \notin {"connect", "write"}

\* C14: while the peer accepts connections and requests and never responds,
\* every result send returns and every result collected is a timeout whose
\* elapsed time is at least the timeout; when such a run has ended, N results
\* were collected, none a success, N failures are reported and no sender is
\* left inside a send.
C14_SilentPeerAllTimeouts ==
    (Started /\ 1 <= concurrency /\ PeerSilent) =>
        /\ \A t \in DOMAIN returned : \A k \in 1..Len(returned[t]) :
             returned[t][k].err = "timeout" /\ returned[t][k].time >= timeout
        /\ \A k \in 1..Len(arrived) :
             arrived[k].err = "timeout" /\ arrived[k].time >= timeout
        /\ mainPc = "exit" =>
             /\ Len(arrived) = reqs
             /\ stats.failures = reqs
             /\ stats.average = WholeSeconds(0) /\ stats.median = WholeSeconds(0)
             /\ \A w \in Workers : pc[w] \in {"unborn", "range"}

\* a run of MaxRequests requests against a silent peer has ended: every
\* result is a timeout, one of them after a dial that took time
C14_Witness ==
    /\ mainPc = "exit"
    /\ reqs = MaxRequests
    /\ PeerSilent
    /\ \A k \in 1..reqs : arrived[k].err = "timeout"
    /\ \E k \in 1..reqs : arrived[k].time > timeout
    /\ stats.failures = reqs

\* the numbers the progress line has to show once k results are collected:
\* the positive multiples of ProgressEvery up to k
Multiples(k) == [j \in 1..(k \div ProgressEvery) |-> j * ProgressEvery]

\* C15: the progress messages emitted so far are exactly one per positive
\* multiple of 100 among the numbers of results collected so far, each showing
\* that number; a run of 100 requests has emitted one message once its 100th
\* result is collected.
C15_ProgressAtHundreds ==
    Started => progress = Multiples(Len(arrived))

\* C16: once start has returned and printStats may run, the collector has
\* received all N results, every slot of the result set has been written once
\* and holds the result that arrived for it; a write after that point would
\* show as a second write of a slot or as one more arrival.
C16_StatsAfterCompleteSet ==
    StartReturned =>
        /\ i = reqs
        /\ Len(arrived) = reqs
        /\ Len(results) = reqs
        /\ \A k \in 1..reqs : writes[k] = 1 /\ results[k] = arrived[k]
        /\ out = <<>>

\* the report of a run of MaxRequests requests is out
C16_Witness ==
    /\ mainPc = "exit"
    /\ stats # NoStats
    /\ reqs = MaxRequests
    /\ Len(arrived) = MaxRequests
    /\ \A k \in 1..MaxRequests : writes[k] = 1

\* C17: a request whose dial failed has returned exactly one result, a
\* failure with elapsed 0, and has no connection, no read and no timeout; a
\* request whose write failed has returned exactly one failure result, its
\* connection is closed, and no read was started and no timeout taken.
C17_EarlyFailuresReturnAtOnce ==
    \A t \in DOMAIN outcome :
        /\ outcome[t] = "connect" =>
             /\ returned[t] = << Result(0, "connect", t) >>
             /\ conn[t] = "none"
             /\ rd[t] = "none"
             /\ body[t] = "none"
        /\ outcome[t] = "write" =>
             /\ returned[t] = << Result(0, "write", t) >>
             /\ conn[t] = "closed"
             /\ rd[t] = "none"
             /\ body[t] = "none"

\* a dial that took time has failed and its send has just returned, and
\* another request's write has failed
C17_Witness ==
    /\ \E w \in Workers :
         pc[w] = "out" /\ res[w].err = "connect" /\ elapsed[w] > 0
    /\ \E t \in DOMAIN outcome : outcome[t] = "write"

\* the read of request t was abandoned to the timer
Abandoned(t) == outcome[t] = "timeout"

\* C18: after the timer has won for a request, its connection stays open,
\* its read goes on or has put its value on its channel, the value is never
\* received, and the request keeps the one timeout result it returned; the
\* step by which the abandoned read completes changes no returned result, no
\* collected result and raises no fault.
C18_AbandonedReadHarmless ==
    /\ [](\A t \in DOMAIN outcome :
            Abandoned(t) =>
                /\ conn[t] = "open"
                /\ rd[t] \in {"reading", "ch_ok", "ch_err"}
                /\ Len(returned[t]) = 1
                /\ returned[t][1].err = "timeout")
    /\ [][\A t \in DOMAIN outcome :
            (Abandoned(t) /\ rd[t] = "reading" /\ rd'[t] # "reading") =>
                /\ rd'[t] \in {"ch_ok", "ch_err"}
                /\ returned' = returned
                /\ results' = results
                /\ arrived' = arrived
                /\ out' = out
                /\ res' = res
                /\ fault' = fault
                /\ mainPc' = mainPc]_vars

\* a run has ended with its report although the read abandoned by a timed
\* out request has failed in the meantime
C18_Witness ==
    /\ mainPc = "exit"
    /\ stats # NoStats
    /\ \E t \in DOMAIN outcome : Abandoned(t) /\ rd[t] = "ch_err"

\* the tickets whose send has begun and not yet returned
InProgress == {t \in DOMAIN sends : sends[t] > Len(returned[t])}

\* C19: at most C calls of send are in progress, one for each sender that is
\* inside send, and the result channel holds at most C results.
C19_AtMostCInFlight ==
    Started =>
        /\ Cardinality(InProgress) <= concurrency
        /\ Cardinality(InProgress) =
             Cardinality({w \in Workers : pc[w] \in {"dial", "write", "select", "panicked"}})
        /\ Len(out) <= concurrency

\* MaxConc sends are in progress at once
C19_Witness ==
    /\ concurrency = MaxConc
    /\ Cardinality(InProgress) = MaxConc
    /\ \A w \in Workers : pc[w] \in {"dial", "write", "select"}

\* C20: no configuration that main accepts ends in a division by zero in
\* printStats or in an invalid size for the result set or the channels.
C20_AcceptedRunsFaultFree ==
    fault \notin {"divzero", "makeslice", "makechan"}

====
